---- MODULE Spec2Model ----
(***************************************************************************)
(* Model of two flows of dspace-angular:                                   *)
(*   - BrowseByMetadataPageComponent (browse-by-metadata-page.component.ts)*)
(*   - SubmissionSubmitFormComponent (submission-objects.effects.ts)       *)
(* JavaScript strings are sequences of one-character strings, so that the  *)
(* unary plus conversion is computed from the characters.                  *)
(***************************************************************************)
EXTENDS Integers, Sequences, FiniteSets, TLC

\* ------------------------------------------------------------------ bounds
MaxCalls == 3
MaxPending == 1
MaxSubs == 1

\* -------------------------------------------------------- JavaScript values
Undefined == [t |-> "undefined"]
Null == [t |-> "null"]
NaN == [t |-> "NaN"]
Str(s) == [t |-> "string", s |-> s]
Num(n) == [t |-> "number", n |-> n]

Digits == {"0", "1", "2", "3", "4", "5", "6", "7", "8", "9"}

DigitVal(c) ==
  CASE c = "0" -> 0 [] c = "1" -> 1 [] c = "2" -> 2 [] c = "3" -> 3
    [] c = "4" -> 4 [] c = "5" -> 5 [] c = "6" -> 6 [] c = "7" -> 7
    [] c = "8" -> 8 [] c = "9" -> 9

RECURSIVE ParseDigits(_)
ParseDigits(s) ==
  IF s = <<>> THEN 0
  ELSE 10 * ParseDigits(SubSeq(s, 1, Len(s) - 1)) + DigitVal(s[Len(s)])

\* Number(string) for strings over digits and letters: "" is 0, a digit
\* string is its decimal value, anything else is NaN.
StringToNumber(s) ==
  IF \A i \in 1..Len(s) : s[i] \in Digits THEN Num(ParseDigits(s)) ELSE NaN

\* The unary plus of the subscribe handler: +params.value, +params.startsWith
UnaryPlus(x) ==
  CASE x.t = "undefined" -> NaN
    [] x.t = "null" -> Num(0)
    [] x.t = "NaN" -> NaN
    [] x.t = "number" -> x
    [] x.t = "string" -> StringToNumber(x.s)

Truthy(x) ==
  CASE x.t = "undefined" -> FALSE
    [] x.t = "null" -> FALSE
    [] x.t = "NaN" -> FALSE
    [] x.t = "number" -> x.n # 0
    [] x.t = "string" -> x.s # <<>>

\* a || b
Or(a, b) == IF Truthy(a) THEN a ELSE b

\* shared/empty.util
hasValue(x) == x.t # "undefined" /\ x.t # "null"

isNotEmpty(x) ==
  CASE x.t = "undefined" -> FALSE
    [] x.t = "null" -> FALSE
    [] x.t = "string" -> Len(x.s) # 0
    [] OTHER -> TRUE

\* ------------------------------------------------- browse page: constants
BBM_PAGINATION_ID == "bbm"
defaultBrowseId == <<"a", "u", "t", "h", "o", "r">>
PageSize == 20

paginationConfig == [id |-> BBM_PAGINATION_ID, currentPage |-> 1, pageSize |-> PageSize]

\* new SortOptions('default', SortDirection.ASC)
sortConfig == [field |-> "default", direction |-> "ASC"]

\* params.k of a parameter object (a function from the keys it has to strings)
Get(params, k) == IF k \in DOMAIN params THEN Str(params[k]) ELSE Undefined

ObjectAssignRouteWins(routeParams, queryParams) ==
  [k \in DOMAIN routeParams \cup DOMAIN queryParams |->
     IF k \in DOMAIN routeParams THEN routeParams[k] ELSE queryParams[k]]

\* Object.assign({}, routeParams, queryParams)
ObjectAssign(routeParams, queryParams) ==
  [k \in DOMAIN routeParams \cup DOMAIN queryParams |->
     IF k \in DOMAIN queryParams THEN queryParams[k] ELSE routeParams[k]]

BrowseEntrySearchOptions(metadata, pagination, sort, startsWith, scope) ==
  [metadataDefinition |-> metadata, pagination |-> pagination, sort |-> sort,
   startsWith |-> startsWith, scope |-> scope]

browseParamsToOptions(params, pagination, sort, metadata) ==
  BrowseEntrySearchOptions(
    metadata, pagination, sort,
    Or(UnaryPlus(Get(params, "startsWith")), Get(params, "startsWith")),
    Get(params, "scope"))

\* ------------------------------------------------------ browse page: inputs
S_title == <<"t", "i", "t", "l", "e">>
S_subject == <<"s", "u", "b", "j", "e", "c", "t">>
S_scope == <<"c", "1">>
S_auth == <<"k">>

RouteParamSets ==
  { <<>>,
    [id |-> S_title, value |-> <<"A">>] }

QueryParamSets ==
  { <<>>,
    [value |-> <<"5">>, authority |-> S_auth],
    [value |-> <<"0">>, startsWith |-> <<"1", "2">>],
    [value |-> <<>>, startsWith |-> <<"A">>],
    [startsWith |-> <<"0">>, scope |-> S_scope],
    [id |-> S_subject, value |-> <<"B">>, startsWith |-> <<>>],
    [id |-> <<>>] }

Paginations == {[paginationConfig EXCEPT !.currentPage = p] : p \in {1, 2}}
Sorts == {[sortConfig EXCEPT !.direction = d] : d \in {"ASC", "DESC"}}

NotEmitted == [t |-> "notEmitted"]

Subscription(id) == [t |-> "subscription", id |-> id]

\* What code outside this class may push on the public field subs
PushedEntries == {Undefined, Null, Subscription("ext")}

\* ------------------------------------------------------- browse page: state
NoObs == 0          \* an observable field that is undefined
NoCall == [op |-> "none", args |-> <<>>]

VARIABLES
  browseEntries,    \* browseEntries$: NoObs or the number of the call that returned it
  items,            \* items$: likewise
  parent,           \* parent$: NoObs-like Undefined or [findById |-> scope]
  subs,             \* subs: sequence of Undefined, Null or Subscription(id)
  browseId, value, authority, startsWith,
  inited, destroyed,
  closed,           \* subscriptions that are closed (completed or unsubscribed)
  unsubscribed,     \* subscriptions unsubscribe() was called on
  cleared,          \* keys clearPagination was called with
  ncalls,           \* number of calls made to browseService
  lastCall,         \* the latest call made to browseService
  pending,          \* goPrev/goNext subscriptions waiting for a first success
  routeParams, queryParams, currentPage, currentSort,
                    \* latest emission of each combineLatest source
  event             \* the operation that ran last, with its input

bvars == <<browseEntries, items, parent, subs, browseId, value, authority,
           startsWith, inited, destroyed, closed, unsubscribed, cleared,
           ncalls, lastCall, pending, routeParams, queryParams, currentPage,
           currentSort, event>>

\* -------------------------------------------------- submission form: state
VARIABLES
  collectionId, submissionId,   \* the @Input fields
  bound,            \* the values the parent template last bound to the inputs
  definitionId, isLoading,
  definitions,      \* state.definitions of the store
  subscribed,       \* ngOnInit has subscribed to the definitions selector
  lastKey,          \* distinctUntilChanged: the last value let through
  dispatched,       \* the actions the component dispatched, in order
  effectLog,        \* what SubmissionObjectEffects did, in order
  sevent            \* the operation that ran last, with its input

svars == <<collectionId, submissionId, bound, definitionId, isLoading,
           definitions, subscribed, lastKey, dispatched, effectLog, sevent>>

vars == <<bvars, svars>>

\* ----------------------------------------------------- browse page: actions
BInit ==
  /\ browseEntries = NoObs
  /\ items = NoObs
  /\ parent = Undefined
  /\ subs = <<>>
  /\ browseId = Str(defaultBrowseId)
  /\ value = Str(<<>>)
  /\ authority = Undefined
  /\ startsWith = Undefined
  /\ inited = FALSE
  /\ destroyed = FALSE
  /\ closed = {}
  /\ unsubscribed = {}
  /\ cleared = {}
  /\ ncalls = 0
  /\ lastCall = NoCall
  /\ pending = {}
  /\ routeParams = NotEmitted
  /\ queryParams = NotEmitted
  /\ currentPage = NotEmitted
  /\ currentSort = NotEmitted
  /\ event = [op |-> "constructor"]

\* One call to browseService: the observable it returns is named by the call
Call(op, args) ==
  /\ ncalls < MaxCalls
  /\ ncalls' = ncalls + 1
  /\ lastCall' = [op |-> op, args |-> args]

updatePage(searchOptions) ==
  /\ Call("getBrowseEntriesFor", <<searchOptions>>)
  /\ browseEntries' = ncalls + 1
  /\ items' = NoObs

updatePageWithItems(searchOptions, v, a) ==
  /\ Call("getBrowseItemsFor", <<v, a, searchOptions>>)
  /\ items' = ncalls + 1
  /\ UNCHANGED browseEntries

updateParent(scope) ==
  IF hasValue(scope)
    THEN parent' = [findById |-> scope]
    ELSE UNCHANGED parent

CoerceValueNoNumber(params) == Or(Get(params, "value"), Str(<<>>))

\* The value the handler stores in this.value
CoerceValue(params) ==
  Or(Or(UnaryPlus(Get(params, "value")), Get(params, "value")), Str(<<>>))

\* The value the handler stores in this.startsWith
CoerceStartsWith(params) ==
  Or(UnaryPlus(Get(params, "startsWith")), Get(params, "startsWith"))

ItemsModeByAuthority(v, a) == isNotEmpty(a)

\* if (isNotEmpty(this.value)): items are fetched, else entries
ItemsMode(v, a) == isNotEmpty(v)

SubscribeHandlerKeepsAuthority(params, page, sort) ==
  /\ browseId' = Or(Get(params, "id"), Str(defaultBrowseId))
  /\ authority' = Or(Get(params, "authority"), authority)
  /\ value' = CoerceValue(params)
  /\ startsWith' = CoerceStartsWith(params)
  /\ LET searchOptions == browseParamsToOptions(params, page, sort, browseId')
     IN IF ItemsMode(value', authority')
          THEN updatePageWithItems(searchOptions, value', authority')
          ELSE updatePage(searchOptions)
  /\ updateParent(Get(params, "scope"))
  /\ event' = [op |-> "snapshot", params |-> params, page |-> page, sort |-> sort]

\* The subscribe handler of ngOnInit, run on one merged snapshot
SubscribeHandler(params, page, sort) ==
  /\ browseId' = Or(Get(params, "id"), Str(defaultBrowseId))
  /\ authority' = Get(params, "authority")
  /\ value' = CoerceValue(params)
  /\ startsWith' = CoerceStartsWith(params)
  /\ LET searchOptions == browseParamsToOptions(params, page, sort, browseId')
     IN IF ItemsMode(value', authority')
          THEN updatePageWithItems(searchOptions, value', authority')
          ELSE updatePage(searchOptions)
  /\ updateParent(Get(params, "scope"))
  /\ event' = [op |-> "snapshot", params |-> params, page |-> page, sort |-> sort]

ngOnInit ==
  /\ UNCHANGED svars
  /\ ~inited
  /\ ~destroyed
  /\ inited' = TRUE
  /\ updatePage(BrowseEntrySearchOptions(Str(defaultBrowseId), paginationConfig,
                                         sortConfig, Undefined, Undefined))
  /\ subs' = Append(subs, Subscription("main"))
  /\ event' = [op |-> "ngOnInit"]
  /\ UNCHANGED <<parent, browseId, value, authority, startsWith, destroyed,
                 closed, unsubscribed, cleared, pending, routeParams,
                 queryParams, currentPage, currentSort>>

EmitCancelsPending(r, q, p, s) ==
  /\ UNCHANGED svars
  /\ inited
  /\ "main" \notin closed
  /\ routeParams' = r
  /\ queryParams' = q
  /\ currentPage' = p
  /\ currentSort' = s
  /\ IF NotEmitted \in {r, q, p, s}
       THEN /\ event' = [op |-> "emit"]
            /\ UNCHANGED <<browseEntries, items, parent, browseId, value,
                           authority, startsWith, ncalls, lastCall, pending>>
       ELSE /\ SubscribeHandler(ObjectAssign(r, q), p, s)
            /\ pending' = {}
  /\ UNCHANGED <<subs, inited, destroyed, closed, unsubscribed, cleared>>

\* combineLatest: one source emits; the handler runs once all four have emitted
Emit(r, q, p, s) ==
  /\ UNCHANGED svars
  /\ inited
  /\ "main" \notin closed
  /\ routeParams' = r
  /\ queryParams' = q
  /\ currentPage' = p
  /\ currentSort' = s
  /\ IF NotEmitted \in {r, q, p, s}
       THEN /\ event' = [op |-> "emit"]
            /\ UNCHANGED <<browseEntries, items, parent, browseId, value,
                           authority, startsWith, ncalls, lastCall>>
       ELSE SubscribeHandler(ObjectAssign(r, q), p, s)
  /\ UNCHANGED <<subs, inited, destroyed, closed, unsubscribed, cleared, pending>>

EmitRouteParams ==
  \E r \in RouteParamSets : Emit(r, queryParams, currentPage, currentSort)

EmitQueryParams ==
  \E q \in QueryParamSets : Emit(routeParams, q, currentPage, currentSort)

EmitPagination ==
  \E p \in Paginations : Emit(routeParams, queryParams, p, currentSort)

EmitSort ==
  \E s \in Sorts : Emit(routeParams, queryParams, currentPage, s)

\* A subscription of goPrev/goNext to the first success of observable obs
NewPending(slot, dir, obs) ==
  [id |-> CHOOSE n \in 1..MaxPending :
            /\ \A p \in pending : p.id # n
            /\ \A m \in 1..(n - 1) : \E p \in pending : p.id = m,
   slot |-> slot, dir |-> dir, obs |-> obs]

\* goPrev / goNext: subscribe to the first success of the populated slot
GoAlwaysSubscribes(dir) ==
  /\ UNCHANGED svars
  /\ ~destroyed
  /\ Cardinality(pending) < MaxPending
  /\ IF items # NoObs
       THEN pending' = pending \cup {NewPending("items", dir, items)}
       ELSE pending' = pending \cup {NewPending("browseEntries", dir, browseEntries)}
  /\ event' = [op |-> dir]
  /\ UNCHANGED <<browseEntries, items, parent, subs, browseId, value, authority,
                 startsWith, inited, destroyed, closed, unsubscribed, cleared,
                 ncalls, lastCall, routeParams, queryParams, currentPage,
                 currentSort>>

Go(dir) ==
  /\ UNCHANGED svars
  /\ ~destroyed
  /\ IF items # NoObs
       THEN /\ Cardinality(pending) < MaxPending
            /\ pending' = pending \cup {NewPending("items", dir, items)}
       ELSE IF browseEntries # NoObs
         THEN /\ Cardinality(pending) < MaxPending
              /\ pending' = pending \cup {NewPending("browseEntries", dir, browseEntries)}
         ELSE UNCHANGED pending
  /\ event' = [op |-> dir]
  /\ UNCHANGED <<browseEntries, items, parent, subs, browseId, value, authority,
                 startsWith, inited, destroyed, closed, unsubscribed, cleared,
                 ncalls, lastCall, routeParams, queryParams, currentPage,
                 currentSort>>

goPrev == Go("goPrev")

goNext == Go("goNext")

AdjacentOpSwappedDir(p) ==
  CASE p.slot = "items" /\ p.dir = "goPrev" -> "getNextBrowseItems"
    [] p.slot = "items" /\ p.dir = "goNext" -> "getPrevBrowseItems"
    [] p.slot = "browseEntries" /\ p.dir = "goPrev" -> "getNextBrowseEntries"
    [] p.slot = "browseEntries" /\ p.dir = "goNext" -> "getPrevBrowseEntries"

\* The browseService method a goPrev/goNext subscriber calls
AdjacentOp(p) ==
  CASE p.slot = "items" /\ p.dir = "goPrev" -> "getPrevBrowseItems"
    [] p.slot = "items" /\ p.dir = "goNext" -> "getNextBrowseItems"
    [] p.slot = "browseEntries" /\ p.dir = "goPrev" -> "getPrevBrowseEntries"
    [] p.slot = "browseEntries" /\ p.dir = "goNext" -> "getNextBrowseEntries"

\* getFirstSucceededRemoteData() delivers to a goPrev/goNext subscriber
FirstSucceeded ==
  \E p \in pending :
    /\ UNCHANGED svars
    /\ Call(AdjacentOp(p), <<p.obs>>)
    /\ IF p.slot = "items"
         THEN items' = ncalls + 1 /\ UNCHANGED browseEntries
         ELSE browseEntries' = ncalls + 1 /\ UNCHANGED items
    /\ pending' = pending \ {p}
    /\ event' = [op |-> "firstSucceeded", sub |-> p]
    /\ UNCHANGED <<parent, subs, browseId, value, authority, startsWith, inited,
                   destroyed, closed, unsubscribed, cleared, routeParams,
                   queryParams, currentPage, currentSort>>

TrackedSubsUnfiltered(s) == s

\* this.subs.filter((sub) => hasValue(sub))
TrackedSubs(s) == SelectSeq(s, hasValue)

\* forEach((sub) => sub.unsubscribe()) stops with a TypeError at the first
\* entry that is no subscription; clearPagination is then not reached.
ngOnDestroy ==
  /\ UNCHANGED svars
  /\ inited
  /\ ~destroyed
  /\ LET f == TrackedSubs(subs)
         bad == {i \in 1..Len(f) : f[i].t # "subscription"}
         upto == IF bad = {} THEN Len(f)
                 ELSE (CHOOSE i \in bad : \A j \in bad : i <= j) - 1
         ids == {f[i].id : i \in 1..upto}
     IN /\ unsubscribed' = unsubscribed \cup ids
        /\ closed' = closed \cup ids
        /\ cleared' = IF bad = {} THEN cleared \cup {paginationConfig.id} ELSE cleared
  /\ destroyed' = TRUE
  /\ event' = [op |-> "ngOnDestroy", closedBefore |-> closed]
  /\ UNCHANGED <<browseEntries, items, parent, subs, browseId, value, authority,
                 startsWith, inited, ncalls, lastCall, pending, routeParams,
                 queryParams, currentPage, currentSort>>

\* Code outside the class pushes an entry on the public field subs
PushSub ==
  \E e \in PushedEntries :
    /\ UNCHANGED svars
    /\ ~destroyed
    /\ Len(SelectSeq(subs, LAMBDA x : x # Subscription("main"))) < MaxSubs
    /\ subs' = Append(subs, e)
    /\ event' = [op |-> "pushSub"]
    /\ UNCHANGED <<browseEntries, items, parent, browseId, value, authority,
                   startsWith, inited, destroyed, closed, unsubscribed, cleared,
                   ncalls, lastCall, pending, routeParams, queryParams,
                   currentPage, currentSort>>

\* The source of a tracked subscription completes: the subscription closes
Complete ==
  \E i \in 1..Len(subs) :
    /\ UNCHANGED svars
    /\ subs[i].t = "subscription"
    /\ subs[i].id \notin closed
    /\ closed' = closed \cup {subs[i].id}
    /\ event' = [op |-> "complete"]
    /\ UNCHANGED <<browseEntries, items, parent, subs, browseId, value, authority,
                   startsWith, inited, destroyed, unsubscribed, cleared, ncalls,
                   lastCall, pending, routeParams, queryParams, currentPage,
                   currentSort>>

\* ------------------------------------------------- submission form: inputs
MaxDispatch == 2

S_c1 == <<"c", "1">>
S_c2 == <<"c", "2">>
S_s1 == <<"s", "1">>
S_s2 == <<"s", "2">>

CollectionIds == {Null, Str(S_c1), Str(S_c2)}
SubmissionIds == {Undefined, Str(S_s1), Str(S_s2)}

DefinitionIds == {<<"A">>, <<"B">>}

\* A definition map: its entries in key order (Object.keys order)
DefinitionMap(entries) == [t |-> "object", entries |-> entries]

RECURSIVE EntrySeqs(_)
EntrySeqs(n) ==
  IF n = 0 THEN {<<>>}
  ELSE LET shorter == EntrySeqs(n - 1) IN
       shorter \cup
       {Append(es, [id |-> k, isDefault |-> b]) :
          es \in {e \in shorter : Len(e) = n - 1},
          k \in DefinitionIds, b \in BOOLEAN}

DistinctKeys(es) == \A i, j \in 1..Len(es) : es[i].id = es[j].id => i = j

\* The values state.definitions takes in the store
DefinitionStates ==
  {Undefined} \cup {DefinitionMap(es) : es \in {e \in EntrySeqs(Cardinality(DefinitionIds)) : DistinctKeys(e)}}

Unbound == [t |-> "unbound"]

SInit ==
  /\ collectionId = Undefined
  /\ submissionId = Undefined
  /\ bound = Unbound
  /\ definitionId = Undefined
  /\ isLoading = TRUE
  /\ definitions = Undefined
  /\ subscribed = FALSE
  /\ lastKey = NotEmitted
  /\ dispatched = <<>>
  /\ effectLog = <<>>
  /\ sevent = [op |-> "constructor"]

Init == BInit /\ SInit

\* ------------------------------------------------ submission form: actions
NewSubmissionFormAction(c, s) ==
  [type |-> "NEW", payload |-> [collectionId |-> c, submissionId |-> s]]

\* changes.k of a SimpleChanges object: the current value, when k changed
Changed(changes, k) == k \in DOMAIN changes

HandleChangesSwapped(changes) ==
  IF /\ Changed(changes, "collectionId") /\ hasValue(changes["collectionId"])
     /\ Changed(changes, "submissionId") /\ hasValue(changes["submissionId"])
    THEN /\ Len(dispatched) < MaxDispatch
         /\ dispatched' = Append(dispatched,
                                 NewSubmissionFormAction(submissionId', collectionId'))
    ELSE UNCHANGED dispatched

\* The body of ngOnChanges
HandleChanges(changes) ==
  IF /\ Changed(changes, "collectionId") /\ hasValue(changes["collectionId"])
     /\ Changed(changes, "submissionId") /\ hasValue(changes["submissionId"])
    THEN /\ Len(dispatched) < MaxDispatch
         /\ dispatched' = Append(dispatched,
                                 NewSubmissionFormAction(collectionId', submissionId'))
    ELSE UNCHANGED dispatched

\* The SimpleChanges of a change detection run that binds (c, s): every
\* input on the first run, afterwards the inputs whose bound value differs
SimpleChanges(c, s) ==
  LET new == [collectionId |-> c, submissionId |-> s]
      keys == IF bound = Unbound THEN {"collectionId", "submissionId"}
              ELSE {k \in {"collectionId", "submissionId"} : new[k] # bound[k]}
  IN [k \in keys |-> new[k]]

\* Change detection sets the changed inputs and calls ngOnChanges
ngOnChanges ==
  \E c \in CollectionIds, s \in SubmissionIds :
    LET changes == SimpleChanges(c, s) IN
    /\ UNCHANGED <<bvars, effectLog>>
    /\ bound = Unbound => ~subscribed
    /\ DOMAIN changes # {}
    /\ bound' = [collectionId |-> c, submissionId |-> s]
    /\ collectionId' = IF Changed(changes, "collectionId") THEN c ELSE collectionId
    /\ submissionId' = IF Changed(changes, "submissionId") THEN s ELSE submissionId
    /\ HandleChanges(changes)
    /\ sevent' = [op |-> "ngOnChanges", changes |-> changes]
    /\ UNCHANGED <<definitionId, isLoading, definitions, subscribed, lastKey>>

isUndefined(x) == x.t = "undefined"

isEmpty(x) ==
  CASE x.t = "undefined" -> TRUE
    [] x.t = "null" -> TRUE
    [] x.t = "object" -> Len(x.entries) = 0
    [] x.t = "string" -> Len(x.s) = 0
    [] OTHER -> FALSE

PassesFilterUndefinedOnly(defs) == ~isUndefined(defs)

\* .filter((definitions) => !isUndefined(definitions) && !isEmpty(definitions))
PassesFilter(defs) == ~isUndefined(defs) /\ ~isEmpty(defs)

\* Object.keys(definitions).filter((id) => definitions[id].isDefault)
DefaultKeys(defs) ==
  LET flagged == SelectSeq(defs.entries, LAMBDA e : e.isDefault)
  IN [i \in 1..Len(flagged) |-> flagged[i].id]

PickFirst(keys) == IF keys = <<>> THEN Undefined ELSE Str(keys[1])

\* keys.pop()
Pop(keys) == IF keys = <<>> THEN Undefined ELSE Str(keys[Len(keys)])

SubscriberReloads(id) ==
  /\ definitionId' = id
  /\ isLoading' = ~hasValue(id)

\* The subscriber of ngOnInit
Subscriber(id) ==
  /\ definitionId' = id
  /\ isLoading' = FALSE

\* The selector stream of getDefaultSubmissionDefinition delivers the store's
\* state defs: filter, map, distinctUntilChanged, then the subscriber
Select(defs) ==
  IF PassesFilter(defs) /\ lastKey # Pop(DefaultKeys(defs))
    THEN /\ lastKey' = Pop(DefaultKeys(defs))
         /\ Subscriber(Pop(DefaultKeys(defs)))
    ELSE UNCHANGED <<lastKey, definitionId, isLoading>>

\* ngOnInit subscribes; the store replays its current state to the subscriber
ngOnInitSubmitForm ==
  /\ UNCHANGED <<bvars, effectLog>>
  /\ ~subscribed
  /\ subscribed' = TRUE
  /\ Select(definitions)
  /\ sevent' = [op |-> "ngOnInit"]
  /\ UNCHANGED <<collectionId, submissionId, bound, definitions, dispatched>>

onCollectionChange ==
  \E c \in {Str(S_c1), Str(S_c2)} :
    /\ UNCHANGED <<bvars, effectLog>>
    /\ collectionId' = c
    /\ sevent' = [op |-> "onCollectionChange", collectionId |-> c]
    /\ UNCHANGED <<submissionId, bound, definitionId, isLoading, definitions,
                   subscribed, lastKey, dispatched>>

\* A reducer replaces state.definitions; the selector stream emits it
StoreChange ==
  \E defs \in DefinitionStates :
    /\ UNCHANGED <<bvars, effectLog>>
    /\ defs # definitions
    /\ definitions' = defs
    /\ IF subscribed THEN Select(defs)
       ELSE UNCHANGED <<lastKey, definitionId, isLoading>>
    /\ sevent' = [op |-> "storeChange"]
    /\ UNCHANGED <<collectionId, submissionId, bound, subscribed, dispatched>>

\* --------------------------------------------- SubmissionObjectEffects
MaxEffects == 4

InitSubmissionFormAction(c, s, d) ==
  [type |-> "INIT_SUBMISSION_FORM",
   payload |-> [collectionId |-> c, submissionId |-> s, definitionId |-> d]]

CompleteInitSubmissionFormAction == [type |-> "COMPLETE_INIT_SUBMISSION_FORM"]

InitDefaultDefinitionAction(c, s) ==
  [type |-> "INIT_DEFAULT_DEFINITION",
   payload |-> [collectionId |-> c, submissionId |-> s]]

\* The actions that arrive on actions$
ObservedActions ==
  {NewSubmissionFormAction(Str(c), Str(S_s1)) : c \in {S_c1, S_c2}}
    \cup {InitSubmissionFormAction(Str(c), Str(S_s1), d) :
            c \in {S_c1, S_c2}, d \in {Str(<<"A">>), Undefined}}
    \cup {CompleteInitSubmissionFormAction}

\* this.sectionService.loadDefaultSections(collectionId, submissionId, definitionId)
LoadDefaultSections(c, s, d) == [k |-> "loadDefaultSections", args |-> <<c, s, d>>]

\* An action an effect emits
Emitted(a) == [k |-> "emit", action |-> a]

\* new$: ofType(NEW).map(...)
NewEffect(a) ==
  IF a.type = "NEW"
    THEN <<Emitted(InitDefaultDefinitionAction(a.payload.collectionId,
                                               a.payload.submissionId))>>
    ELSE <<>>

InitFormEffectWithoutLoad(a) ==
  IF a.type = "INIT_SUBMISSION_FORM"
    THEN <<Emitted(CompleteInitSubmissionFormAction)>>
    ELSE <<>>

\* initForm$: ofType(INIT_SUBMISSION_FORM).do(...).map(...)
InitFormEffect(a) ==
  IF a.type = "INIT_SUBMISSION_FORM"
    THEN <<LoadDefaultSections(a.payload.collectionId, a.payload.submissionId,
                               a.payload.definitionId),
           Emitted(CompleteInitSubmissionFormAction)>>
    ELSE <<>>

\* One action on actions$ passes through both effects
Observe ==
  \E a \in ObservedActions :
    /\ UNCHANGED bvars
    /\ Len(effectLog \o NewEffect(a) \o InitFormEffect(a)) <= MaxEffects
    /\ effectLog' = effectLog \o NewEffect(a) \o InitFormEffect(a)
    /\ sevent' = [op |-> "actions$", action |-> a]
    /\ UNCHANGED <<collectionId, submissionId, bound, definitionId, isLoading,
                   definitions, subscribed, lastKey, dispatched>>

ENext == Observe

\* The effects with the action stream they listen to
EffectsSpec == Init /\ [][ENext]_vars

SNext ==
  \/ ngOnChanges
  \/ ngOnInitSubmitForm
  \/ onCollectionChange
  \/ StoreChange

\* The submission form with the store it selects from
SubmitSpec == Init /\ [][SNext]_vars

BNext ==
  \/ ngOnInit
  \/ EmitRouteParams
  \/ EmitQueryParams
  \/ EmitPagination
  \/ EmitSort
  \/ goPrev
  \/ goNext
  \/ FirstSucceeded
  \/ ngOnDestroy

\* The page driven by its parameter sources
BrowseSpec == Init /\ [][BNext]_vars

TNext ==
  \/ ngOnInit
  \/ PushSub
  \/ Complete
  \/ goPrev
  \/ goNext
  \/ FirstSucceeded
  \/ ngOnDestroy

\* The page's subscription list and its teardown
TeardownSpec == Init /\ [][TNext]_vars

\* ------------------------------------------------------ browse page: claims
ParamOf(k) == event.params[k]
HasParam(k) == k \in DOMAIN event.params
LastOptions == lastCall.args[Len(lastCall.args)]

\* C1: at most one of browseEntries$ and items$ is populated in every
\* reachable state of the page.
C1_MutuallyExclusive == ~(browseEntries # NoObs /\ items # NoObs)

\* C2: every merged snapshot issues exactly one fetch: getBrowseItemsFor for
\* the (coerced) value when the value parameter is a non-empty string,
\* getBrowseEntriesFor when it is empty or absent.
C2_ModeSelection ==
  [][event'.op = "snapshot" =>
       LET ps == event'.params IN
       /\ ncalls' = ncalls + 1
       /\ IF "value" \in DOMAIN ps /\ ps["value"] # <<>>
            THEN /\ lastCall'.op = "getBrowseItemsFor"
                 /\ lastCall'.args[1] \in {Str(ps["value"]), StringToNumber(ps["value"])}
                 /\ items' = ncalls'
            ELSE /\ lastCall'.op = "getBrowseEntriesFor"
                 /\ browseEntries' = ncalls'
                 /\ items' = NoObs]_vars

C2_Witness ==
  /\ event.op = "snapshot"
  /\ HasParam("value") /\ ParamOf("value") = <<"0">>
  /\ lastCall.op = "getBrowseItemsFor"
  /\ items = ncalls

\* A string the claim counts as numeric: a non-empty string of digits
IsNumericString(s) == s # <<>> /\ \A i \in 1..Len(s) : s[i] \in Digits

ClaimedCoercion(k) ==
  IF ~HasParam(k) THEN Undefined
  ELSE IF IsNumericString(ParamOf(k)) THEN Num(ParseDigits(ParamOf(k)))
  ELSE Str(ParamOf(k))

ActualCoercion(k, whenAbsent) ==
  IF ~HasParam(k) THEN whenAbsent
  ELSE IF IsNumericString(ParamOf(k)) /\ ParseDigits(ParamOf(k)) # 0
    THEN Num(ParseDigits(ParamOf(k)))
  ELSE Str(ParamOf(k))

C4_NoOpWhenEmpty ==
  [][event'.op \in {"goPrev", "goNext"} =>
       /\ items = NoObs => \A p \in pending' \ pending : p.slot # "items"
       /\ browseEntries = NoObs =>
            \A p \in pending' \ pending : p.slot # "browseEntries"
       /\ (items = NoObs /\ browseEntries = NoObs) =>
            UNCHANGED <<pending, ncalls, lastCall, items, browseEntries>>]_vars

C4_Witness ==
  /\ event.op \in {"goPrev", "goNext"}
  /\ items = NoObs
  /\ browseEntries = NoObs
  /\ pending = {}
  /\ ncalls = 0

\* C7: after ngOnDestroy, unsubscribe() was called on every subscription in
\* subs and clearPagination was called with 'bbm', whatever subs holds
\* (undefined, null, subscriptions already closed).
C7_Teardown ==
  destroyed =>
    /\ \A i \in 1..Len(subs) :
         subs[i].t = "subscription" =>
           subs[i].id \in unsubscribed /\ subs[i].id \in closed
    /\ "bbm" \in cleared

C7_Witness ==
  /\ event.op = "ngOnDestroy"
  /\ "main" \in event.closedBefore
  /\ \E i \in 1..Len(subs) : subs[i] \in {Undefined, Null}
  /\ "main" \in unsubscribed
  /\ "bbm" \in cleared

\* -------------------------------------------------- submission form: claims
BothChanged(ev) ==
  /\ ev.op = "ngOnChanges"
  /\ DOMAIN ev.changes = {"collectionId", "submissionId"}
  /\ hasValue(ev.changes["collectionId"])
  /\ hasValue(ev.changes["submissionId"])

LastDispatched == dispatched[Len(dispatched)]

\* C5: an ngOnChanges that newly sets collectionId to c and submissionId to s
\* dispatches exactly one NewSubmissionFormAction, with payload
\* {collectionId: c, submissionId: s}.
C5_OneInitAction ==
  [][BothChanged(sevent') =>
       dispatched' = Append(dispatched,
                            [type |-> "NEW",
                             payload |-> [collectionId |-> sevent'.changes["collectionId"],
                                          submissionId |-> sevent'.changes["submissionId"]]])]_vars

C5_Witness ==
  /\ BothChanged(sevent)
  /\ Len(dispatched) = 1
  /\ LastDispatched.payload = [collectionId |-> Str(S_c1), submissionId |-> Str(S_s1)]

\* The ids of the entries of the store's map that are flagged isDefault
DefaultIdsOf(defs) == {defs.entries[i].id : i \in {j \in 1..Len(defs.entries) : defs.entries[j].isDefault}}

NonEmptyMap(defs) == defs.t = "object" /\ Len(defs.entries) > 0

\* The last key, in key order, whose entry is flagged isDefault
LastDefaultOf(defs) ==
  LET n == CHOOSE i \in 1..Len(defs.entries) :
             /\ defs.entries[i].isDefault
             /\ \A j \in (i + 1)..Len(defs.entries) : ~defs.entries[j].isDefault
  IN defs.entries[n].id

\* C6 as stated: once the subscribed coordinator has a non-empty map,
\* definitionId is a key of the map flagged isDefault (the last such key) and
\* isLoading is false.
C6_Original ==
  (subscribed /\ NonEmptyMap(definitions)) =>
    /\ isLoading = FALSE
    /\ definitionId.t = "string"
    /\ definitionId.s \in DefaultIdsOf(definitions)

\* C6 amended: once the subscribed coordinator has a non-empty map with at
\* least one entry flagged isDefault, definitionId is the last default key in
\* the map's key order and isLoading is false; a non-empty map with no default
\* entry also clears isLoading, with definitionId undefined.
C6_DefaultDefinition ==
  (subscribed /\ NonEmptyMap(definitions)) =>
    /\ isLoading = FALSE
    /\ IF DefaultIdsOf(definitions) # {}
         THEN definitionId = Str(LastDefaultOf(definitions))
         ELSE definitionId = Undefined

C6_Witness ==
  /\ subscribed
  /\ definitions = DefinitionMap(<<[id |-> <<"B">>, isDefault |-> TRUE],
                                   [id |-> <<"A">>, isDefault |-> TRUE]>>)
  /\ definitionId = Str(<<"A">>)
  /\ isLoading = FALSE

\* C8: every step that changes collectionId or submissionId and leaves both
\* ids present and non-empty dispatches a NewSubmissionFormAction carrying
\* both current ids.
C8_DispatchOnEitherChange ==
  [][(/\ <<collectionId', submissionId'>> # <<collectionId, submissionId>>
      /\ isNotEmpty(collectionId')
      /\ isNotEmpty(submissionId')) =>
       dispatched' = Append(dispatched,
                            [type |-> "NEW",
                             payload |-> [collectionId |-> collectionId',
                                          submissionId |-> submissionId']])]_vars

\* C9: once a default definition id has been picked, no later change of the
\* store's definition map changes definitionId.
C9_ReadOnce ==
  [][(isLoading = FALSE /\ definitionId.t = "string") =>
       definitionId' = definitionId]_vars

AllEmitted == NotEmitted \notin {routeParams, queryParams, currentPage, currentSort}

\* The parameter k of the latest route and query emissions, query first
LatestParam(k) ==
  IF k \in DOMAIN queryParams THEN Str(queryParams[k])
  ELSE IF k \in DOMAIN routeParams THEN Str(routeParams[k])
  ELSE Undefined

\* What one run of the handler leaves behind, from the latest emissions only
RebuiltFromLatest ==
  /\ browseId = Or(LatestParam("id"), Str(defaultBrowseId))
  /\ authority = LatestParam("authority")
  /\ value = Or(Or(UnaryPlus(LatestParam("value")), LatestParam("value")), Str(<<>>))
  /\ startsWith = Or(UnaryPlus(LatestParam("startsWith")), LatestParam("startsWith"))
  /\ LastOptions = [metadataDefinition |-> browseId,
                    pagination |-> currentPage,
                    sort |-> currentSort,
                    startsWith |-> startsWith,
                    scope |-> LatestParam("scope")]

\* C11: the handler does not run before all four sources have emitted; from
\* then on it runs once for each emission of any source, and each run sets
\* browseId, authority, value, startsWith and the query descriptor from the
\* latest values of the four sources alone.
C11_CombineLatest ==
  [][event'.op \in {"emit", "snapshot"} =>
       /\ event'.op = "snapshot" <=> AllEmitted'
       /\ event'.op = "emit" =>
            UNCHANGED <<browseId, authority, value, startsWith, ncalls, lastCall,
                        browseEntries, items>>
       /\ event'.op = "snapshot" => (ncalls' = ncalls + 1 /\ RebuiltFromLatest')]_vars

C11_Witness ==
  /\ event.op = "snapshot"
  /\ ncalls = 3
  /\ lastCall.op = "getBrowseEntriesFor"
  /\ authority = Undefined
  /\ currentPage.currentPage = 2
  /\ LastOptions.pagination.currentPage = 2

\* C13: after a snapshot without a scope parameter parent$ is unset, and after
\* a snapshot with a scope it is the first success of findById(scope).
C13_ParentFollowsScope ==
  event.op = "snapshot" =>
    IF HasParam("scope")
      THEN parent = [findById |-> Str(ParamOf("scope"))]
      ELSE parent = Undefined

\* C14: goPrev/goNext subscribe to one slot that is populated (items$ when it
\* is, else browseEntries$) and change neither slot themselves; the first
\* success of that subscription replaces that slot by the adjacent page the
\* browseService returns for the delivered value and leaves the other slot
\* as it was; so without a first success neither slot changes.
C14_ActsOnPopulatedSlot ==
  [][/\ event'.op \in {"goPrev", "goNext"} =>
          /\ UNCHANGED <<items, browseEntries, ncalls, lastCall>>
          /\ pending \subseteq pending'
          /\ Cardinality(pending' \ pending) <= 1
          /\ \A p \in pending' \ pending :
               /\ p.dir = event'.op
               /\ p.slot = IF items # NoObs THEN "items" ELSE "browseEntries"
               /\ p.obs = IF items # NoObs THEN items ELSE browseEntries
               /\ p.obs # NoObs
     /\ event'.op = "firstSucceeded" =>
          LET p == event'.sub IN
          /\ p \in pending /\ pending' = pending \ {p}
          /\ ncalls' = ncalls + 1
          /\ lastCall'.args = <<p.obs>>
          /\ IF p.slot = "items"
               THEN /\ lastCall'.op = IF p.dir = "goNext" THEN "getNextBrowseItems"
                                                          ELSE "getPrevBrowseItems"
                    /\ items' = ncalls'
                    /\ UNCHANGED browseEntries
               ELSE /\ lastCall'.op = IF p.dir = "goNext" THEN "getNextBrowseEntries"
                                                          ELSE "getPrevBrowseEntries"
                    /\ browseEntries' = ncalls'
                    /\ UNCHANGED items]_vars

C14_Witness ==
  /\ event.op = "firstSucceeded"
  /\ event.sub.slot = "items"
  /\ event.sub.dir = "goPrev"
  /\ lastCall.op = "getPrevBrowseItems"
  /\ browseEntries = 1
  /\ items = 3

\* C15: a snapshot cancels no goPrev/goNext subscription, and a subscription
\* made before a snapshot still delivers after it: the adjacent page of the
\* observable it subscribed to, not of the one the snapshot stored, then
\* overwrites the slot.
C15_NoCancellation ==
  [][/\ event'.op = "snapshot" => pending' = pending
     /\ (event'.op = "firstSucceeded" /\ event'.sub.slot = "browseEntries"
           /\ event'.sub.obs # browseEntries) =>
          /\ browseEntries' = ncalls'
          /\ browseEntries' # browseEntries
          /\ lastCall'.args = <<event'.sub.obs>>
     /\ (event'.op = "firstSucceeded" /\ event'.sub.slot = "items"
           /\ event'.sub.obs # items) =>
          /\ items' = ncalls'
          /\ items' # items
          /\ lastCall'.args = <<event'.sub.obs>>]_vars

\* goNext on the entries of ngOnInit, then an entries snapshot (call 2), then
\* the first success of the earlier subscription replaces browseEntries$
C15_Witness ==
  /\ event.op = "firstSucceeded"
  /\ event.sub = [id |-> 1, slot |-> "browseEntries", dir |-> "goNext", obs |-> 1]
  /\ AllEmitted
  /\ items = NoObs
  /\ ncalls = 3
  /\ browseEntries = 3
  /\ lastCall = [op |-> "getNextBrowseEntries", args |-> <<1>>]

\* C16: once ngOnDestroy has run, items$ and browseEntries$ are not assigned
\* again and browseService is not called again, also when a goPrev/goNext
\* subscription was still waiting at teardown.
C16_QuietAfterDestroy ==
  [][destroyed => UNCHANGED <<items, browseEntries, ncalls, lastCall>>]_vars

\* C17: after every snapshot the snapshot holds, for each name, the query
\* parameter when there is one and else the route parameter; browseId and the
\* metadata id of the query descriptor are the snapshot's id when it is
\* present and not the empty string, and 'author' otherwise, whatever
\* browseId was before.
C17_BrowseIdFallback ==
  [][event'.op = "snapshot" =>
       LET q == queryParams'
           r == routeParams'
           hasId == "id" \in DOMAIN q \cup DOMAIN r
           id == IF "id" \in DOMAIN q THEN q["id"] ELSE r["id"]
           expected == IF hasId /\ id # <<>> THEN Str(id)
                       ELSE Str(<<"a", "u", "t", "h", "o", "r">>)
       IN /\ DOMAIN event'.params = DOMAIN q \cup DOMAIN r
          /\ \A k \in DOMAIN q : event'.params[k] = q[k]
          /\ \A k \in DOMAIN r \ DOMAIN q : event'.params[k] = r[k]
          /\ browseId' = expected
          /\ lastCall'.args[Len(lastCall'.args)].metadataDefinition = expected]_vars

\* The query's empty id overrides the route's 'title': the id is 'author'
C17_Witness ==
  /\ event.op = "snapshot"
  /\ routeParams = [id |-> S_title, value |-> <<"A">>]
  /\ queryParams = [id |-> <<>>]
  /\ ParamOf("id") = <<>>
  /\ ParamOf("value") = <<"A">>
  /\ browseId = Str(defaultBrowseId)
  /\ LastOptions.metadataDefinition = Str(defaultBrowseId)
  /\ lastCall.op = "getBrowseItemsFor"

\* -------------------------------------- submission form: claims, continued
\* C18 as stated: isLoading = false implies that definitionId is the id of a
\* default definition; isLoading is not cleared while definitionId is
\* undefined.
C18_Original ==
  isLoading = FALSE => definitionId.t = "string"

\* C18 amended: isLoading is cleared, and definitionId assigned, only by a
\* delivery of a non-empty definition map to the subscribed component, never
\* before; definitionId is then the last key of that map flagged isDefault,
\* and undefined when the map has no default entry, in which case isLoading
\* is cleared all the same.
C18_LoadingClearedByMap ==
  [][<<isLoading, definitionId>>' # <<isLoading, definitionId>> =>
       /\ subscribed'
       /\ NonEmptyMap(definitions')
       /\ isLoading' = FALSE
       /\ IF DefaultIdsOf(definitions') # {}
            THEN definitionId' = Str(LastDefaultOf(definitions'))
            ELSE definitionId' = Undefined]_vars

C18_Witness ==
  /\ sevent.op = "storeChange"
  /\ isLoading = FALSE
  /\ definitionId = Undefined
  /\ definitions = DefinitionMap(<<[id |-> <<"A">>, isDefault |-> FALSE]>>)

\* ------------------------------------------------------- effects: claims
IsLoad(e) == e.k = "loadDefaultSections"
IsCompletion(e) == e.k = "emit" /\ e.action.type = "COMPLETE_INIT_SUBMISSION_FORM"

\* C12: each INIT_SUBMISSION_FORM action on actions$ makes one call of
\* loadDefaultSections with its (collectionId, submissionId, definitionId) and
\* then one CompleteInitSubmissionFormAction; any other action makes neither,
\* so no completion lacks a load call right before it.
C12_InitFormEffect ==
  [][sevent'.op = "actions$" =>
       LET a == sevent'.action
           new == SubSeq(effectLog', Len(effectLog) + 1, Len(effectLog'))
       IN /\ SubSeq(effectLog', 1, Len(effectLog)) = effectLog
          /\ IF a.type = "INIT_SUBMISSION_FORM"
               THEN new = <<[k |-> "loadDefaultSections",
                             args |-> <<a.payload.collectionId,
                                        a.payload.submissionId,
                                        a.payload.definitionId>>],
                            [k |-> "emit",
                             action |-> [type |-> "COMPLETE_INIT_SUBMISSION_FORM"]]>>
               ELSE \A i \in 1..Len(new) : ~IsLoad(new[i]) /\ ~IsCompletion(new[i])
          /\ \A i \in 1..Len(effectLog') :
               IsCompletion(effectLog'[i]) => (i > 1 /\ IsLoad(effectLog'[i - 1]))]_vars

C12_Witness ==
  /\ sevent.op = "actions$"
  /\ sevent.action.type = "INIT_SUBMISSION_FORM"
  /\ sevent.action.payload.definitionId = Undefined
  /\ Len(effectLog) = 4
  /\ IsLoad(effectLog[3])
  /\ effectLog[3].args = <<Str(S_c2), Str(S_s1), Undefined>>
  /\ IsCompletion(effectLog[4])

====
